---- MODULE Spec2Model ----
(***************************************************************************)
(* A model of pull_partition_images_ADB.py: a command-line tool that pulls *)
(* a partition (or full-disk) image from an Android device through adb.   *)
(*                                                                         *)
(* Python strings and byte strings are sequences of one-character strings *)
(* (bytes: of small integers).  An optional value is <<>> (None) or <<v>>. *)
(* Everything the program reads from outside (adb's output, the user's    *)
(* input, the file system) is drawn from bounded sets.                     *)
(***************************************************************************)
EXTENDS Integers, Sequences, FiniteSets, TLC

VARIABLES
    pc,              \* the statement the program is at
    exit_status,     \* <<>> while running, <<code>> once the process has ended
    exit_at,         \* the function in which the process ended
    raised,          \* the uncaught exception that ended it ("": none)
    adb,             \* host: "ok", "missing" (not in PATH) or "error" (non-zero exit)
    devices,         \* host: serials that `adb devices` lists
    rooted,          \* device: whether `adb shell which su` succeeds right now
    device_changes,  \* how often the device's state changed during the run
    dirs,            \* host file system: the existing directories (component lists)
    cwd,             \* host file system: the current directory
    root_results,    \* the values check_root() returned so far, in call order
    partitions,      \* main's `partitions`
    fallback_issued, \* whether `ls /dev/block` was run
    partition,       \* main's `partition` (device path)
    save_path,       \* main's `save_path`
    progress_tool,   \* main's `progress_tool`
    partition_size,  \* pull_image's `partition_size`
    source,          \* the bytes the device-side dd delivers on its stdout
    pos,             \* how many of them the host has consumed
    reads,           \* how many non-empty chunks read() has returned
    file,            \* content of the local file at save_path
    file_opened,     \* whether open(save_path, "wb") ran
    dd_started,      \* whether the dd child process was spawned
    progress_n,      \* tqdm's counter n (<<>>: no meter exists)
    display,         \* the progress display in use during the transfer
    xfer,            \* NOT_STARTED, STREAMING or DONE
    reported,        \* the path printed in "Image saved to ..." (<<>>: not printed)
    inp,             \* the last value read from outside (user input, command output)
    category,        \* result of get_partition_category
    reprompts        \* how often a prompt loop has rejected an input

ctl   == <<pc, exit_status, exit_at, raised>>
env   == <<adb, devices, rooted, device_changes, dirs, cwd>>
mainv == <<root_results, partitions, fallback_issued, partition, save_path,
           progress_tool, partition_size>>
xferv == <<source, pos, reads, file, file_opened, dd_started, progress_n, display,
           xfer, reported>>
ghost == <<inp, category, reprompts>>
vars  == <<ctl, env, mainv, xferv, ghost>>

----------------------------------------------------------------------------
(* Bounds of the model.                                                    *)

MaxPieces   == 2    \* pieces a partition label is built from
MaxLines    == 2    \* lines of a command's output
MaxParts    == 2    \* partitions offered by the menu
MaxInputLen == 2    \* characters of a menu choice
MaxPrompts  == 2    \* rejected inputs per prompt loop
MaxPathLen  == 3    \* characters of a destination path
MaxStream   == 3    \* bytes the device delivers
MaxDevices  == 2    \* attached devices
MaxChanges  == 1    \* changes of the device's state during a run

----------------------------------------------------------------------------
(* Python's str and list operations, as the program uses them.             *)

None == <<>>
Some(v) == <<v>>

Min(a, b) == IF a <= b THEN a ELSE b

\* The set of sequences over S of length 0..n.
SeqsUpTo(S, n) == UNION {[1..k -> S] : k \in 0..n}

RECURSIVE Cat(_)
\* "".join(pieces)
Cat(pieces) == IF pieces = <<>> THEN <<>> ELSE Head(pieces) \o Cat(Tail(pieces))

RECURSIVE Join(_, _)
\* sep.join(lines), sep one character
Join(lines, sep) ==
    IF lines = <<>> THEN <<>>
    ELSE IF Len(lines) = 1 THEN lines[1]
    ELSE lines[1] \o <<sep>> \o Join(Tail(lines), sep)

\* sub in s
Contains(sub, s) ==
    \E i \in 0..(Len(s) - Len(sub)) : SubSeq(s, i + 1, i + Len(sub)) = sub

UpperChars == <<"A", "B", "C", "D", "E", "F", "G", "H", "I", "J", "K", "L", "M", "N", "O", "P", "Q", "R", "S", "T", "U", "V", "W", "X", "Y", "Z">>
LowerChars == <<"a", "b", "c", "d", "e", "f", "g", "h", "i", "j", "k", "l", "m", "n", "o", "p", "q", "r", "s", "t", "u", "v", "w", "x", "y", "z">>

lower_char(c) ==
    IF \E i \in 1..Len(UpperChars) : UpperChars[i] = c
    THEN LowerChars[CHOOSE i \in 1..Len(UpperChars) : UpperChars[i] = c]
    ELSE c

\* s.lower()
lower(s) == [i \in 1..Len(s) |-> lower_char(s[i])]

Whitespace == {" ", "\t", "\r", "\n"}

RECURSIVE lstrip(_)
lstrip(s) == IF s # <<>> /\ Head(s) \in Whitespace THEN lstrip(Tail(s)) ELSE s

RECURSIVE rstrip(_)
rstrip(s) ==
    IF s # <<>> /\ s[Len(s)] \in Whitespace
    THEN rstrip(SubSeq(s, 1, Len(s) - 1)) ELSE s

\* s.strip()
strip(s) == rstrip(lstrip(s))

RECURSIVE split_on(_, _, _)
\* s.split(sep) for a one-character sep: `cur` is the field being read.
split_on(s, sep, cur) ==
    IF s = <<>> THEN <<cur>>
    ELSE IF Head(s) = sep THEN <<cur>> \o split_on(Tail(s), sep, <<>>)
    ELSE split_on(Tail(s), sep, Append(cur, Head(s)))

split_sep(s, sep) == split_on(s, sep, <<>>)

RECURSIVE split_ws(_, _)
\* s.split(): fields separated by runs of whitespace, no empty fields.
split_ws(s, cur) ==
    IF s = <<>> THEN (IF cur = <<>> THEN <<>> ELSE <<cur>>)
    ELSE IF Head(s) \in Whitespace
         THEN (IF cur = <<>> THEN <<>> ELSE <<cur>>) \o split_ws(Tail(s), <<>>)
         ELSE split_ws(Tail(s), Append(cur, Head(s)))

split(s) == split_ws(s, <<>>)

DecimalChars == <<"0", "1", "2", "3", "4", "5", "6", "7", "8", "9">>

\* Characters for which str.isdigit() is true: the decimal digits and the
\* digit-like characters that are no decimal digits (superscript two).
DigitChars == {DecimalChars[i] : i \in 1..Len(DecimalChars)} \cup {"²"}

\* s.isdigit()
isdigit(s) == s # <<>> /\ \A i \in 1..Len(s) : s[i] \in DigitChars

\* Whether int(s) raises ValueError, for s made of isdigit() characters.
int_raises(s) ==
    \E i \in 1..Len(s) : \A d \in 1..Len(DecimalChars) : DecimalChars[d] # s[i]

digit_value(c) == (CHOOSE d \in 1..Len(DecimalChars) : DecimalChars[d] = c) - 1

RECURSIVE int_from(_, _)
int_from(s, acc) ==
    IF s = <<>> THEN acc ELSE int_from(Tail(s), 10 * acc + digit_value(Head(s)))

\* int(s), for s made of decimal digits
int(s) == int_from(s, 0)

----------------------------------------------------------------------------
(* get_partition_category                                                  *)

\* The dict `categories`, in insertion order (the order `for key in` visits).
categories == <<
    [key |-> <<"b", "o", "o", "t">>,     value |-> "Bootloader"],
    [key |-> <<"r", "e", "c", "o", "v", "e", "r", "y">>, value |-> "Recovery"],
    [key |-> <<"s", "y", "s", "t", "e", "m">>,   value |-> "Android System"],
    [key |-> <<"v", "e", "n", "d", "o", "r">>,   value |-> "Vendor Data"],
    [key |-> <<"u", "s", "e", "r", "d", "a", "t", "a">>, value |-> "User Data"],
    [key |-> <<"c", "a", "c", "h", "e">>,    value |-> "Cache"],
    [key |-> <<"m", "e", "t", "a", "d", "a", "t", "a">>, value |-> "Metadata"],
    [key |-> <<"m", "o", "d", "e", "m">>,    value |-> "Modem Firmware"],
    [key |-> <<"p", "e", "r", "s", "i", "s", "t">>,  value |-> "Persistent Storage"],
    [key |-> <<"d", "t", "b", "o">>,     value |-> "Device Tree Blob"],
    [key |-> <<"v", "b", "m", "e", "t", "a">>,   value |-> "Verified Boot Metadata"] >>

RECURSIVE category_from(_, _)
\* The loop over the keys, from the i-th key on.
category_from(i, partition_name) ==
    IF i > Len(categories) THEN "Unknown"
    ELSE IF Contains(categories[i].key, lower(partition_name))
         THEN categories[i].value
         ELSE category_from(i + 1, partition_name)

RECURSIVE category_backwards(_, _)
category_backwards(i, partition_name) ==
    IF i < 1 THEN "Unknown"
    ELSE IF Contains(categories[i].key, lower(partition_name))
         THEN categories[i].value
         ELSE category_backwards(i - 1, partition_name)

\* A variant that visits the keys in reverse order (last key wins).
get_partition_category_last_wins(partition_name) ==
    category_backwards(Len(categories), partition_name)

get_partition_category(partition_name) == category_from(1, partition_name)

\* Labels: up to MaxPieces pieces, each a known fragment (in some case) or filler.
LabelPieces ==
    {categories[i].key : i \in 1..Len(categories)}
    \cup {<<"B", "O", "O", "T">>, <<"V", "e", "n", "d", "o", "r">>, <<"_">>, <<"_", "a">>, <<"s", "d", "a">>, <<"x">>}

Labels == {Cat(ps) : ps \in SeqsUpTo(LabelPieces, MaxPieces)}

----------------------------------------------------------------------------
(* Values every specification starts from.                                 *)

CtlStart(at) == pc = at /\ exit_status = None /\ exit_at = "" /\ raised = ""

EnvIdle ==
    /\ adb = "ok" /\ devices = <<"dev1">> /\ rooted = TRUE /\ device_changes = 0
    /\ dirs = {<<>>} /\ cwd = <<>>

MainIdle ==
    /\ root_results = <<>> /\ partitions = <<>> /\ fallback_issued = FALSE
    /\ partition = <<>> /\ save_path = <<>> /\ progress_tool = ""
    /\ partition_size = None

XferIdle ==
    /\ source = <<>> /\ pos = 0 /\ reads = 0 /\ file = <<>> /\ file_opened = FALSE
    /\ dd_started = FALSE /\ progress_n = None /\ display = "none"
    /\ xfer = "NOT_STARTED" /\ reported = None

GhostIdle == inp = <<>> /\ category = "" /\ reprompts = 0

----------------------------------------------------------------------------
(* Specification of the classifier alone: one call on a label.             *)

InitCategory ==
    /\ CtlStart("get_partition_category")
    /\ EnvIdle /\ MainIdle /\ XferIdle
    /\ inp \in Labels /\ category = "" /\ reprompts = 0

Classify ==
    /\ pc = "get_partition_category"
    /\ category' = get_partition_category(inp)
    /\ pc' = "returned"
    /\ UNCHANGED <<exit_status, exit_at, raised, env, mainv, xferv, inp, reprompts>>

NextCategory == Classify

SpecCategory == InitCategory /\ [][NextCategory]_vars

\* The keys the lower-cased label contains.
MatchingKeys(l) == {i \in 1..Len(categories) : Contains(categories[i].key, lower(l))}

\* C6 as stated: whichever known fragment the label contains, the classifier
\* returns that fragment's category; "Unknown" when it contains none.
C6_AnyFragment ==
    pc = "returned" =>
        /\ \A i \in MatchingKeys(inp) : category = categories[i].value
        /\ MatchingKeys(inp) = {} => category = "Unknown"

\* C6 amended: the classifier returns the category of the first key, in the
\* mapping's order, that the lower-cased label contains, whatever surrounds it
\* and whatever its case; "Unknown" when it contains none.
C6_FirstFragment ==
    pc = "returned" =>
        /\ \A i \in MatchingKeys(inp) :
              (\A j \in MatchingKeys(inp) : i <= j) => category = categories[i].value
        /\ MatchingKeys(inp) = {} => category = "Unknown"

\* A label with two fragments and upper-case letters has been classified.
C6_Witness ==
    /\ pc = "returned"
    /\ Cardinality(MatchingKeys(inp)) >= 2
    /\ inp # lower(inp)

----------------------------------------------------------------------------
(* list_partitions                                                         *)

\* How the process ends: exit(code) in function `at`, or an uncaught
\* exception `exc` (the interpreter prints the traceback and exits with 1).
Exits(code, at, exc) ==
    /\ pc' = "exited" /\ exit_status' = Some(code) /\ exit_at' = at /\ raised' = exc

Goes(next) == pc' = next /\ UNCHANGED <<exit_status, exit_at, raised>>

\* The body of `if "->" in line:`: the descriptor of one symlink line.
\* parts[-3] raises IndexError when the line has fewer than three fields.
descriptor(line) ==
    LET parts == split(line)
        n == Len(parts)
    IN  IF n < 3 THEN [raised |-> "IndexError", d |-> <<>>]
        ELSE LET partition_label == parts[n - 2]
                 tail == split_sep(parts[n], "/")
                 partition_name == tail[Len(tail)]
             IN  [raised |-> "",
                  d |-> <<partition_name, partition_label,
                          get_partition_category(partition_label)>>]

RECURSIVE named_partitions(_, _)
\* The loop over the lines of `ls -l /dev/block/by-name`, `acc` the list so far.
named_partitions(lines, acc) ==
    IF lines = <<>> THEN [raised |-> "", partitions |-> acc]
    ELSE IF Contains(<<"-", ">">>, Head(lines))
         THEN LET r == descriptor(Head(lines))
              IN  IF r.raised # "" THEN [raised |-> r.raised, partitions |-> acc]
                  ELSE named_partitions(Tail(lines), Append(acc, r.d))
         ELSE named_partitions(Tail(lines), acc)

RECURSIVE keep_matching(_, _)
\* [(line.strip(), line.strip(), "Unknown") for line in lines if pattern in line]
keep_matching(lines, pattern) ==
    IF lines = <<>> THEN <<>>
    ELSE (IF Contains(pattern, Head(lines))
          THEN << <<strip(Head(lines)), strip(Head(lines)), "Unknown">> >>
          ELSE <<>>) \o keep_matching(Tail(lines), pattern)

\* A variant that keeps every mmcblk entry, the whole-disk node included.
fallback_partitions_any_mmcblk(stdout) ==
    keep_matching(split_sep(stdout, "\n"), <<"m", "m", "c", "b", "l", "k">>)

\* The fallback: the entries of `ls /dev/block` that contain "mmcblk0p".
fallback_partitions(stdout) ==
    keep_matching(split_sep(stdout, "\n"), <<"m", "m", "c", "b", "l", "k", "0", "p">>)

\* list_partitions(), given what the two adb commands would answer:
\* in.rc, in.out for `ls -l /dev/block/by-name`, in.raw for `ls /dev/block`.
list_partitions(in) ==
    LET named == IF in.rc = 0
                 THEN named_partitions(split_sep(in.out, "\n"), <<>>)
                 ELSE [raised |-> "", partitions |-> <<>>]
    IN  IF named.raised # ""
        THEN [raised |-> named.raised, partitions |-> <<>>, fallback |-> FALSE]
        ELSE IF named.partitions = <<>>
             THEN [raised |-> "", partitions |-> fallback_partitions(in.raw),
                   fallback |-> TRUE]
             ELSE [raised |-> "", partitions |-> named.partitions,
                   fallback |-> FALSE]

\* main's call of list_partitions(), on the answers `in`.
ListPartitionsOn(in) ==
    /\ pc = "list_partitions"
    /\ LET r == list_partitions(in)
       IN  IF r.raised # ""
           THEN /\ Exits(1, "list_partitions", r.raised)
                /\ UNCHANGED <<partitions, fallback_issued>>
           ELSE /\ Goes("choose_partition")
                /\ partitions' = r.partitions
                /\ fallback_issued' = r.fallback
    /\ UNCHANGED <<root_results, partition, save_path, progress_tool, partition_size>>
    /\ UNCHANGED <<env, xferv, category, reprompts>>

\* Lines of `ls -l /dev/block/by-name`: a line without the marker, two
\* symlink lines, a symlink line of exactly three fields, one of two fields.
NamedLines ==
    { <<"t", "o", "t", "a", "l", " ", "0">>,
      <<"l", " ", "b", "o", "o", "t", "_", "a", " ", "-", ">", " ", "/", "d", "e", "v", "/", "s", "d", "a", "1">>,
      <<"l", " ", "s", "y", "s", "t", "e", "m", " ", "-", ">", " ", "/", "d", "e", "v", "/", "s", "d", "a", "2", "\r">>,
      <<"x", " ", "-", ">", " ", "y">>,
      <<"-", ">", " ", "s", "d", "a", "3">> }

\* Lines of `ls /dev/block`.
RawLines == { <<"m", "m", "c", "b", "l", "k", "0">>, <<"m", "m", "c", "b", "l", "k", "0", "p", "1">>, <<"m", "m", "c", "b", "l", "k", "0", "p", "2", "\r">> }

ListInputs ==
    [rc  : {0, 1},
     out : {Join(ls, "\n") : ls \in SeqsUpTo(NamedLines, MaxLines)},
     raw : {Join(ls, "\n") : ls \in SeqsUpTo(RawLines, MaxLines)}]

InitList ==
    /\ CtlStart("list_partitions")
    /\ EnvIdle /\ MainIdle /\ XferIdle /\ GhostIdle

ListStep == \E in \in ListInputs : ListPartitionsOn(in) /\ inp' = in

NextList == ListStep

SpecList == InitList /\ [][NextList]_vars

\* The lines of the named-block listing that contain the symlink marker.
SymlinkLines(in) == SelectSeq(split_sep(in.out, "\n"), LAMBDA l : Contains(<<"-", ">">>, l))

\* C7 as stated: a successful named-block listing with N >= 1 symlink lines
\* yields exactly N descriptors in listing order, without an exception,
\* whatever the number of fields on each line.
C7_AllSymlinkLines ==
    (pc # "list_partitions" /\ inp.rc = 0 /\ SymlinkLines(inp) # <<>>) =>
        /\ raised = ""
        /\ Len(partitions) = Len(SymlinkLines(inp))
        /\ \A k \in 1..Len(partitions) :
              \E f \in 1..Len(split(SymlinkLines(inp)[k])) :
                  split(SymlinkLines(inp)[k])[f] = partitions[k][2]

\* The entries the fallback is to return, from the raw listing.
ExpectedFallback(in) ==
    LET kept == SelectSeq(split_sep(in.raw, "\n"), LAMBDA l : Contains(<<"m", "m", "c", "b", "l", "k", "0", "p">>, l))
    IN  [k \in 1..Len(kept) |-> <<strip(kept[k]), strip(kept[k]), "Unknown">>]

\* C8: the raw block listing is issued exactly when no named partition was
\* recovered (command failed, or no symlink line); the result is then exactly
\* the raw entries matching mmcblk0p, in order, labelled by their node name and
\* categorised "Unknown".
C8_Fallback ==
    /\ pc = "choose_partition" =>
          /\ fallback_issued <=> (inp.rc # 0 \/ SymlinkLines(inp) = <<>>)
          /\ fallback_issued => partitions = ExpectedFallback(inp)
    /\ pc = "exited" => ~fallback_issued

\* The fallback ran on a raw listing with a matching and a non-matching entry.
C8_Witness ==
    /\ pc = "choose_partition" /\ fallback_issued
    /\ Len(partitions) = 1
    /\ Len(split_sep(inp.raw, "\n")) = 2
    /\ partitions[1][1] # split_sep(inp.raw, "\n")[1]
    /\ partitions[1][1] # split_sep(inp.raw, "\n")[2]

----------------------------------------------------------------------------
(* choose_partition                                                        *)

\* What choose_partition returns for the accepted number n.
selected_path(parts, n) ==
    IF n = Len(parts) + 1 THEN <<"/", "d", "e", "v", "/", "b", "l", "o", "c", "k", "/", "m", "m", "c", "b", "l", "k", "0">>
    ELSE LET partition_name == parts[n][1]
         IN  IF Contains(<<"b", "y", "-", "n", "a", "m", "e">>, partition_name)
             THEN <<"/", "d", "e", "v", "/", "b", "l", "o", "c", "k", "/", "b", "y", "-", "n", "a", "m", "e", "/">> \o partition_name
             ELSE <<"/", "d", "e", "v", "/", "b", "l", "o", "c", "k", "/">> \o partition_name

\* One more rejected input of a prompt loop.
Reprompt ==
    /\ reprompts < MaxPrompts
    /\ reprompts' = reprompts + 1
    /\ UNCHANGED ctl

\* One pass of the `while True:` loop of choose_partition, on the line
\* `choice` read by input().  `a and b` evaluates int(choice) only when
\* choice.isdigit() holds; a ValueError of int() is not caught.
ChoosePartitionOn(choice) ==
    /\ pc = "choose_partition"
    /\ IF isdigit(choice)
       THEN IF int_raises(choice)
            THEN /\ Exits(1, "choose_partition", "ValueError")
                 /\ UNCHANGED <<partition, reprompts>>
            ELSE IF 1 <= int(choice) /\ int(choice) <= Len(partitions) + 1
                 THEN /\ Goes("choose_save_location")
                      /\ partition' = selected_path(partitions, int(choice))
                      /\ reprompts' = 0
                 ELSE Reprompt /\ UNCHANGED partition
       ELSE Reprompt /\ UNCHANGED partition
    /\ UNCHANGED <<root_results, partitions, fallback_issued, save_path,
                   progress_tool, partition_size>>
    /\ UNCHANGED <<env, xferv, category>>

ChoiceChars == {"0", "1", "2", "3", "4", "9", "a", "-", " ", "²"}

Choices == SeqsUpTo(ChoiceChars, MaxInputLen)

Descriptors ==
    { <<<<"s", "d", "a", "1">>, <<"b", "o", "o", "t", "_", "a">>, "Bootloader">>,
      <<<<"m", "m", "c", "b", "l", "k", "0", "p", "2">>, <<"m", "m", "c", "b", "l", "k", "0", "p", "2">>, "Unknown">> }

InitChoose ==
    /\ CtlStart("choose_partition")
    /\ EnvIdle /\ XferIdle /\ GhostIdle
    /\ partitions \in SeqsUpTo(Descriptors, MaxParts)
    /\ root_results = <<>> /\ fallback_issued = FALSE
    /\ partition = <<>> /\ save_path = <<>> /\ progress_tool = ""
    /\ partition_size = None

ChooseStep == \E choice \in Choices : ChoosePartitionOn(choice) /\ inp' = choice

NextChoose == ChooseStep

SpecChoose == InitChoose /\ [][NextChoose]_vars

\* A plain integer, as a user types it: decimal digits only.
PlainInteger(s) ==
    s # <<>> /\ \A i \in 1..Len(s) : \E d \in 1..Len(DecimalChars) : DecimalChars[d] = s[i]

InRange(s) == PlainInteger(s) /\ 1 <= int(s) /\ int(s) <= Len(partitions) + 1

\* C4 as stated: an input that is no integer of 1..N+1 is rejected with a
\* reprompt and never ends the program; an integer of 1..N+1 is accepted;
\* N+1 gives the full-disk path and i <= N the path of the i-th descriptor.
C4_Selector ==
    (pc # "choose_partition" \/ reprompts > 0) =>
        /\ ~InRange(inp) => (pc = "choose_partition" /\ exit_status = None)
        /\ InRange(inp) =>
              /\ pc = "choose_save_location"
              /\ int(inp) = Len(partitions) + 1 => partition = <<"/", "d", "e", "v", "/", "b", "l", "o", "c", "k", "/", "m", "m", "c", "b", "l", "k", "0">>
              /\ int(inp) <= Len(partitions) =>
                    partition = <<"/", "d", "e", "v", "/", "b", "l", "o", "c", "k", "/">> \o partitions[int(inp)][1]

----------------------------------------------------------------------------
(* choose_save_location                                                    *)

\* The components of a path: the fields between slashes, empty ones dropped.
components(path) == SelectSeq(split_sep(path, "/"), LAMBDA c : c # <<>>)

\* The directory entry a path names: from the root when it begins with a
\* slash, from the current directory otherwise.
resolve(path) ==
    IF path # <<>> /\ Head(path) = "/" THEN components(path)
    ELSE cwd \o components(path)

\* os.path.isdir(path): false for the empty path.
isdir(path) == path # <<>> /\ resolve(path) \in dirs

RECURSIVE rstrip_slash(_)
rstrip_slash(s) ==
    IF s # <<>> /\ s[Len(s)] = "/" THEN rstrip_slash(SubSeq(s, 1, Len(s) - 1)) ELSE s

\* The index of the last slash of path, 0 when there is none (rfind + 1).
last_slash(path) ==
    IF Contains(<<"/">>, path)
    THEN CHOOSE i \in 1..Len(path) :
            path[i] = "/" /\ \A j \in (i + 1)..Len(path) : path[j] # "/"
    ELSE 0

\* os.path.dirname(path) (posixpath): everything up to the last slash, with
\* trailing slashes removed unless it is made of slashes only.
dirname(path) ==
    LET head == SubSeq(path, 1, last_slash(path))
    IN  IF rstrip_slash(head) # <<>> THEN rstrip_slash(head) ELSE head

\* One pass of the `while True:` loop of choose_save_location, on the
\* line `path` read by input().
ChooseSaveOn(path) ==
    /\ pc = "choose_save_location"
    /\ IF isdir(path)
       THEN Reprompt /\ UNCHANGED save_path
       ELSE IF isdir(dirname(path))
            THEN /\ Goes("detect_progress_tool")
                 /\ save_path' = path
                 /\ reprompts' = 0
            ELSE Reprompt /\ UNCHANGED save_path
    /\ UNCHANGED <<root_results, partitions, fallback_issued, partition,
                   progress_tool, partition_size>>
    /\ UNCHANGED <<env, xferv, category>>

PathChars == {"/", "a", "b"}

Paths == SeqsUpTo(PathChars, MaxPathLen)

\* Directory trees: the root, and below it any of a, b and a/b whose
\* parent is there too.
DirA == << <<"a">> >>
DirB == << <<"b">> >>
DirAB == << <<"a">>, <<"b">> >>

DirTrees ==
    {t \cup {<<>>} : t \in {s \in SUBSET {DirA, DirB, DirAB} : DirAB \in s => DirA \in s}}

InitSave ==
    /\ CtlStart("choose_save_location")
    /\ MainIdle /\ XferIdle /\ GhostIdle
    /\ adb = "ok" /\ devices = <<"dev1">> /\ rooted = TRUE /\ device_changes = 0
    /\ dirs \in DirTrees
    /\ cwd \in dirs

SaveStep == \E path \in Paths : ChooseSaveOn(path) /\ inp' = path

NextSave == SaveStep

SpecSave == InitSave /\ [][NextSave]_vars

\* Whether the parent directory of a path exists: the current directory for
\* a bare file name, the directory part of the path otherwise.
ParentExists(path) ==
    IF Contains(<<"/">>, path) THEN isdir(dirname(path)) ELSE path # <<>>

\* C5 as stated: a path is rejected (reprompt, the program goes on) when it
\* is an existing directory or its parent directory does not exist, and it is
\* accepted and returned otherwise, a bare file name included.
C5_Validator ==
    (pc # "choose_save_location" \/ reprompts > 0) =>
        /\ exit_status = None
        /\ (isdir(inp) \/ ~ParentExists(inp)) => pc = "choose_save_location"
        /\ (~isdir(inp) /\ ParentExists(inp)) =>
              (pc = "detect_progress_tool" /\ save_path = inp)

----------------------------------------------------------------------------
(* main: check_adb, get_device, check_root                                 *)

\* check_adb(): FileNotFoundError is caught and answered with exit(1);
\* check=True raises CalledProcessError on a non-zero exit, which is not.
CheckAdb ==
    /\ pc = "check_adb"
    /\ IF adb = "missing" THEN Exits(1, "check_adb", "")
       ELSE IF adb = "error" THEN Exits(1, "check_adb", "CalledProcessError")
       ELSE Goes("get_device")
    /\ UNCHANGED <<env, mainv, xferv, ghost>>

\* What `adb devices` prints: a header, one line per device, an empty line.
adb_devices_stdout ==
    Join(<<<<"L", "i", "s", "t", " ", "o", "f", " ", "d", "e", "v", "i", "c", "e", "s", " ", "a", "t", "t", "a", "c", "h", "e", "d">>>>
            \o [i \in 1..Len(devices) |-> devices[i] \o <<"\t", "d", "e", "v", "i", "c", "e">>], "\n")
        \o <<"\n", "\n">>

\* get_device(): result.stdout.strip().split("\n")[1:], then the test
\* `not devices or devices[0] == ""`.  main does not keep the serial.
GetDevice ==
    /\ pc = "get_device"
    /\ LET listed == Tail(split_sep(strip(adb_devices_stdout), "\n"))
       IN  IF listed = <<>> \/ listed[1] = <<>>
           THEN Exits(1, "get_device", "")
           ELSE Goes("check_root")
    /\ UNCHANGED <<env, mainv, xferv, ghost>>

\* check_root(): whether `which su` succeeded with some output; an exception
\* while running it gives False as well.
check_root == rooted

\* A variant of main's check that reports the missing root and goes on.
CheckRootMain_no_exit ==
    /\ pc = "check_root"
    /\ root_results' = Append(root_results, check_root)
    /\ Goes("list_partitions")
    /\ UNCHANGED <<partitions, fallback_issued, partition, save_path,
                   progress_tool, partition_size>>
    /\ UNCHANGED <<env, xferv, ghost>>

\* main: `if not check_root(): ... exit(1)`.
CheckRootMain ==
    /\ pc = "check_root"
    /\ root_results' = Append(root_results, check_root)
    /\ IF ~check_root THEN Exits(1, "main", "") ELSE Goes("list_partitions")
    /\ UNCHANGED <<partitions, fallback_issued, partition, save_path,
                   progress_tool, partition_size>>
    /\ UNCHANGED <<env, xferv, ghost>>

\* The device is not under the program's control: between two adb commands it
\* may be unplugged or replugged, or su may be revoked or granted.
DeviceStateChanges ==
    /\ pc \notin {"exited", "done"}
    /\ device_changes < MaxChanges
    /\ rooted' = ~rooted
    /\ device_changes' = device_changes + 1
    /\ UNCHANGED <<adb, devices, dirs, cwd>>
    /\ UNCHANGED <<ctl, mainv, xferv, ghost>>

----------------------------------------------------------------------------
(* main: the calls of list_partitions, choose_partition,                   *)
(* choose_save_location and detect_progress_tool                           *)

MainListInputs ==
    { [rc |-> 0, out |-> <<"l", " ", "b", "o", "o", "t", "_", "a", " ", "-", ">", " ", "/", "d", "e", "v", "/", "s", "d", "a", "1">>, raw |-> <<>>],
      [rc |-> 1, out |-> <<>>, raw |-> <<"m", "m", "c", "b", "l", "k", "0", "\n", "m", "m", "c", "b", "l", "k", "0", "p", "1">>],
      [rc |-> 1, out |-> <<>>, raw |-> <<>>],
      [rc |-> 0, out |-> <<"a", "-", ">", "b">>, raw |-> <<>>] }

MainList == \E in \in MainListInputs : ListPartitionsOn(in) /\ UNCHANGED inp

MainChoices == { <<"1">>, <<"2">>, <<"x">>, <<"²">> }

MainChoose == \E choice \in MainChoices : ChoosePartitionOn(choice) /\ UNCHANGED inp

MainPaths == { <<"/", "a">>, <<"a">>, <<"/">> }

MainSave == \E path \in MainPaths : ChooseSaveOn(path) /\ UNCHANGED inp

\* detect_progress_tool(), from platform.system() and shutil.which("pv").
detect_progress_tool(system, pv) ==
    IF system = "Windows" THEN "tqdm"
    ELSE IF system = "Linux" THEN (IF pv THEN "pv" ELSE "tqdm")
    ELSE "tqdm"

DetectProgressTool ==
    /\ pc = "detect_progress_tool"
    /\ \E system \in {"Windows", "Linux", "Darwin"}, pv \in BOOLEAN :
          progress_tool' = detect_progress_tool(system, pv)
    /\ Goes("pull_image")
    /\ UNCHANGED <<root_results, partitions, fallback_issued, partition,
                   save_path, partition_size>>
    /\ UNCHANGED <<env, xferv, ghost>>

----------------------------------------------------------------------------
(* pull_image                                                              *)

\* A variant of pull_image's check that notes the result and goes on.
PullCheckRoot_ignores_result ==
    /\ pc = "pull_image"
    /\ root_results' = Append(root_results, check_root)
    /\ Goes("get_partition_size")
    /\ UNCHANGED <<partitions, fallback_issued, partition, save_path,
                   progress_tool, partition_size>>
    /\ UNCHANGED <<env, xferv, ghost>>

\* pull_image: `if not check_root(): ... exit(1)`.
PullCheckRoot ==
    /\ pc = "pull_image"
    /\ root_results' = Append(root_results, check_root)
    /\ IF ~check_root THEN Exits(1, "pull_image", "")
       ELSE Goes("get_partition_size")
    /\ UNCHANGED <<partitions, fallback_issued, partition, save_path,
                   progress_tool, partition_size>>
    /\ UNCHANGED <<env, xferv, ghost>>

\* get_partition_size(), given the exit code and output of blockdev.
get_partition_size(ans) ==
    IF ans.rc = 0 /\ isdigit(strip(ans.out)) THEN Some(int(strip(ans.out)))
    ELSE None

\* What `blockdev --getsize64` may answer: the size of the block device (a
\* block device that exists has a positive size), or a failure.
SizeAnswers ==
    {[rc |-> 0, out |-> <<DecimalChars[n + 1]>> \o <<"\n">>] : n \in 1..(MaxStream + 1)}
    \cup {[rc |-> 1, out |-> <<>>],
          [rc |-> 0, out |-> <<"s", "h", ":", " ", "b", "l", "o", "c", "k", "d", "e", "v", ":", " ", "n", "o", "t", " ", "f", "o", "u", "n", "d", "\n">>],
          [rc |-> 1, out |-> <<"2", "\n">>]}

GetPartitionSize ==
    /\ pc = "get_partition_size"
    /\ \E ans \in SizeAnswers : partition_size' = get_partition_size(ans)
    /\ Goes("start_transfer")
    /\ UNCHANGED <<root_results, partitions, fallback_issued, partition,
                   save_path, progress_tool>>
    /\ UNCHANGED <<env, xferv, ghost>>

\* The bytes dd may deliver: the device's content, or a prefix of it when the
\* connection breaks; never more than the device holds.
Bytes == {0, 1}

Streams ==
    {s \in SeqsUpTo(Bytes, MaxStream) :
        partition_size # None => Len(s) <= partition_size[1]}

\* Python's truth value of partition_size: None and 0 are false.
truthy(size) == size # None /\ size[1] # 0

\* open(save_path, "wb"): the file is created or truncated.
OpenForWriting == file' = <<>> /\ file_opened' = TRUE

\* A variant that refuses to transfer without a size.
StartTransfer_needs_size ==
    /\ pc = "start_transfer"
    /\ IF truthy(partition_size)
       THEN /\ OpenForWriting
            /\ dd_started' = TRUE
            /\ \E s \in Streams : source' = s
            /\ progress_n' = Some(0) /\ display' = "tqdm_total"
            /\ xfer' = "STREAMING"
            /\ Goes("read_loop")
       ELSE /\ Exits(1, "pull_image", "")
            /\ UNCHANGED <<file, file_opened, dd_started, source, progress_n,
                           display, xfer>>
    /\ UNCHANGED <<pos, reads, reported>>
    /\ UNCHANGED <<env, mainv, ghost>>

\* The start of the transfer.  With a size (both the "pv" and the "tqdm"
\* branch): open the file, Popen the dd command with its stdout piped, create
\* the tqdm meter with total = partition_size.  Otherwise: open the file and
\* run dd with the file as its stdout, with no meter.
StartTransfer ==
    /\ pc = "start_transfer"
    /\ OpenForWriting
    /\ dd_started' = TRUE
    /\ \E s \in Streams : source' = s
    /\ xfer' = "STREAMING"
    /\ IF \/ progress_tool = "pv" /\ truthy(partition_size)
          \/ progress_tool = "tqdm" /\ truthy(partition_size)
       THEN /\ progress_n' = Some(0) /\ display' = "tqdm_total"
            /\ Goes("read_loop")
       ELSE /\ progress_n' = None /\ display' = "none"
            /\ Goes("wait_dd")
    /\ UNCHANGED <<pos, reads, reported>>
    /\ UNCHANGED <<env, mainv, ghost>>

\* The size of the chunks read: process.stdout.read(1024 * 1024).
ChunkSize == 1024 * 1024

\* A variant of f.write that replaces the content.
after_write_overwrite(content, data) == data

\* The file's content after f.write(data).
after_write(content, data) == content \o data

\* One pass of the read loop: read up to ChunkSize bytes (at least one unless
\* the stream is at its end); stop on an empty read, else write and count.
ReadChunk ==
    /\ pc = "read_loop"
    /\ \E k \in 0..Min(ChunkSize, Len(source) - pos) :
          /\ k = 0 <=> pos = Len(source)
          /\ LET data == SubSeq(source, pos + 1, pos + k)
             IN  IF data = <<>>
                 THEN /\ xfer' = "DONE"
                      /\ Goes("report")
                      /\ UNCHANGED <<file, progress_n, pos, reads>>
                 ELSE /\ file' = after_write(file, data)
                      /\ progress_n' = Some(progress_n[1] + Len(data))
                      /\ pos' = pos + k
                      /\ reads' = reads + 1
                      /\ UNCHANGED xfer
                      /\ UNCHANGED ctl
    /\ UNCHANGED <<source, file_opened, dd_started, display, reported>>
    /\ UNCHANGED <<env, mainv, ghost>>

\* subprocess.run(command, stdout=f): dd writes all it delivers to the file;
\* its exit code is not looked at.
WaitDd ==
    /\ pc = "wait_dd"
    /\ file' = after_write(file, SubSeq(source, pos + 1, Len(source)))
    /\ pos' = Len(source)
    /\ xfer' = "DONE"
    /\ Goes("report")
    /\ UNCHANGED <<source, reads, file_opened, dd_started, progress_n, display,
                   reported>>
    /\ UNCHANGED <<env, mainv, ghost>>

\* A variant that takes a file shorter than the partition for a failure.
Report_checks_length ==
    /\ pc = "report"
    /\ IF partition_size # None /\ Len(file) < partition_size[1]
       THEN Exits(1, "pull_image", "") /\ UNCHANGED reported
       ELSE /\ reported' = Some(save_path)
            /\ pc' = "done" /\ exit_status' = Some(0)
            /\ UNCHANGED <<exit_at, raised>>
    /\ UNCHANGED <<source, pos, reads, file, file_opened, dd_started,
                   progress_n, display, xfer>>
    /\ UNCHANGED <<env, mainv, ghost>>

\* print(f"Image saved to {save_path}"); pull_image and main return, and the
\* interpreter exits with status 0.
Report ==
    /\ pc = "report"
    /\ reported' = Some(save_path)
    /\ pc' = "done" /\ exit_status' = Some(0)
    /\ UNCHANGED <<exit_at, raised>>
    /\ UNCHANGED <<source, pos, reads, file, file_opened, dd_started,
                   progress_n, display, xfer>>
    /\ UNCHANGED <<env, mainv, ghost>>

----------------------------------------------------------------------------
(* The whole program.                                                      *)

Serials == { <<"d", "1">>, <<"d", "2">> }

\* What the file at the destination may hold before the run.
OldFiles == { <<>>, <<2, 2>> }

Init ==
    /\ CtlStart("check_adb")
    /\ adb \in {"ok", "missing", "error"}
    /\ devices \in SeqsUpTo(Serials, MaxDevices)
    /\ rooted \in BOOLEAN
    /\ device_changes = 0
    /\ dirs = {<<>>} /\ cwd = <<>>
    /\ MainIdle /\ GhostIdle
    /\ source = <<>> /\ pos = 0 /\ reads = 0
    /\ file \in OldFiles
    /\ file_opened = FALSE /\ dd_started = FALSE
    /\ progress_n = None /\ display = "none"
    /\ xfer = "NOT_STARTED" /\ reported = None

Next ==
    \/ CheckAdb
    \/ GetDevice
    \/ CheckRootMain
    \/ DeviceStateChanges
    \/ MainList
    \/ MainChoose
    \/ MainSave
    \/ DetectProgressTool
    \/ PullCheckRoot
    \/ GetPartitionSize
    \/ StartTransfer
    \/ ReadChunk
    \/ WaitDd
    \/ Report

Spec == Init /\ [][Next]_vars

----------------------------------------------------------------------------
(* Properties of the transfer and of the run as a whole.                   *)

C3_RootBeforeTransfer ==
    /\ (\E i \in 1..Len(root_results) : ~root_results[i]) =>
          /\ pc = "exited" /\ exit_status = Some(1)
          /\ ~dd_started /\ ~file_opened
    /\ (dd_started \/ file_opened) =>
          /\ adb = "ok" /\ devices # <<>>
          /\ root_results # <<>> /\ \A i \in 1..Len(root_results) : root_results[i]

\* main's root check has failed on a device that is not rooted.
C3_Witness ==
    /\ pc = "exited" /\ exit_at = "main"
    /\ root_results = <<FALSE>>
    /\ adb = "ok" /\ devices # <<>>

\* C9 as stated: when main's root check returned true, the program never
\* exits from pull_image's not-rooted branch.
C9_SecondCheckUnreachable ==
    (root_results # <<>> /\ root_results[1]) =>
        ~(pc = "exited" /\ exit_at = "pull_image")

\* C9 amended: the check in pull_image asks the device again.  It runs only
\* after main's check returned true, and it fails exactly when the device's
\* state changed in between; the program then exits with status 1 from
\* pull_image, after partition and destination were chosen and before dd is
\* started or the destination opened.
C9_SecondCheck ==
    /\ Len(root_results) = 2 => root_results[1]
    /\ (Len(root_results) = 2 /\ ~root_results[2])
          <=> (pc = "exited" /\ exit_at = "pull_image")
    /\ exit_at = "pull_image" =>
          /\ exit_status = Some(1) /\ raised = ""
          /\ device_changes > 0
          /\ partition # <<>> /\ save_path # <<>>
          /\ ~dd_started /\ ~file_opened

\* The program has exited from pull_image's not-rooted branch.
C9_Witness ==
    /\ pc = "exited" /\ exit_at = "pull_image"
    /\ root_results = <<TRUE, FALSE>>

\* C10: the transfer moves only NOT_STARTED -> STREAMING -> DONE; once it
\* has started the program cannot end otherwise than by normal completion
\* and can always take its next step; the file, truncated at the start, holds
\* a prefix of the stream and in the end all of it, however short the stream
\* is; the save location is then reported and the exit status is 0.
C10_Transfer ==
    /\ [][xfer' # xfer =>
            <<xfer, xfer'>> \in {<<"NOT_STARTED", "STREAMING">>, <<"STREAMING", "DONE">>}]_vars
    /\ [][xfer # "NOT_STARTED" => pc' # "exited"]_vars
    /\ [](xfer # "NOT_STARTED" =>
            /\ file = SubSeq(source, 1, Len(file))
            /\ pc # "done" => ENABLED (ReadChunk \/ WaitDd \/ Report))
    /\ [](pc = "done" =>
            /\ xfer = "DONE" /\ file = source
            /\ reported = Some(save_path)
            /\ exit_status = Some(0) /\ raised = "")

\* A stream shorter than the partition was transferred over an old file.
C10_Witness ==
    /\ pc = "done" /\ xfer = "DONE"
    /\ partition_size # None /\ Len(source) < partition_size[1]
    /\ file = source /\ reported = Some(save_path)

====
